---- MODULE Spec2Model ----
(***************************************************************************)
(* The two example scripts of finmarketpy_examples as a state machine:     *)
(*   fx_options_indices_examples.py  ("indices")                            *)
(*   fx_options_pricing_examples.py  ("pricing")                            *)
(* A state is the position of the interpreter in one script (pc is a       *)
(* source line), the script's variables, the log of the external calls     *)
(* made so far and the outcome of the run.  One step executes one          *)
(* statement.  Every external call may raise; nothing in the scripts       *)
(* catches an exception.                                                    *)
(***************************************************************************)
EXTENDS Integers, Sequences, FiniteSets, TLC

VARIABLES script, run_example, pc, env, md_request, fx_options_curve,
          stack, returned, df_list, calls, executed, blocks, prepared,
          status, failure

vars == <<script, run_example, pc, env, md_request, fx_options_curve,
          stack, returned, df_list, calls, executed, blocks, prepared,
          status, failure>>

\* Values tried for the literal on the run_example line: -1 .. MaxRunExample.
MaxRunExample == 6

RunExamples == (0 - 1)..MaxRunExample

Scripts == {"indices", "pricing"}

\* ---------------------------------------------------------------- helpers

\* A keyword argument name=value.
P(n, v) == <<n, v>>

\* The value of keyword n in the keyword list kw ("<absent>" when not given).
KwGet(kw, n) ==
  IF \E i \in 1..Len(kw) : kw[i][1] = n
  THEN kw[CHOOSE i \in 1..Len(kw) : kw[i][1] = n][2]
  ELSE "<absent>"

\* obj.n = v on an object whose attributes are the keyword list kw.
KwSet(kw, n, v) ==
  IF \E i \in 1..Len(kw) : kw[i][1] = n
  THEN [i \in 1..Len(kw) |-> IF kw[i][1] = n THEN P(n, v) ELSE kw[i]]
  ELSE Append(kw, P(n, v))

\* One external call: the callable, the line, positional and keyword
\* arguments, and the state of the object it is called on.
Call(fn_, line_, pos_, kw_, recv_) ==
  [fn |-> fn_, line |-> line_, pos |-> pos_, kw |-> kw_, recv |-> recv_, ok |-> TRUE]

\* [cross[0:3], cross[3:6]]
CrossSplit(c) ==
  CASE c = "AUDUSD" -> <<"AUD", "USD">>
    [] c = "EURUSD" -> <<"EUR", "USD">>
    [] c = "GBPUSD" -> <<"GBP", "USD">>
    [] c = "USDJPY" -> <<"USD", "JPY">>
    [] OTHER -> <<"?", "?">>

EnvVars == {"logger", "chart", "market", "prepare_indices",
            "start_date", "finish_date", "horizon_date", "cross",
            "fx_options_trading_tenor", "tenors", "df", "df_market",
            "df_cuemacro_option_call_tot", "df_cuemacro_option_call_tc",
            "df_cuemacro_option_put_tot", "df_cuemacro_option_put_tc",
            "df_cuemacro_option_straddle_tot", "df_cuemacro_option_straddle_tc",
            "df_bbg_tot", "df_index", "calculations", "fx_vol_surface", "fx_op"}

\* ------------------------------------------------- the text of the scripts

\* The lines that start a top-level statement, in text order.
IndicesLines ==
  <<23, 26, 29, 31, 33, 35, 36, 37, 39, 41, 42, 48, 50,
    73, 77, 79, 80, 83, 88, 89, 92, 95, 100, 111, 114, 118, 122,
    126, 129, 130, 132, 133, 135, 137, 140, 143,
    150, 154, 155, 159, 160, 163, 168, 169, 175, 180, 192, 196,
    200, 203, 204, 206, 207, 209, 211, 214, 216>>

PricingLines ==
  <<22, 25, 28, 30, 32, 33, 35, 37, 38, 47,
    52, 54, 55, 58, 63, 65, 67, 71, 72, 74, 75, 79, 80,
    87, 89, 90, 92, 95, 100, 103, 104, 106, 108, 109, 112, 113, 116, 117,
    123, 125, 126, 129, 134, 136, 138, 142, 143,
    147, 149, 150, 153, 158, 160, 162, 168, 169,
    173, 175, 176, 179, 184, 186, 188, 194, 195>>

Lines(s) == IF s = "indices" THEN IndicesLines ELSE PricingLines

\* The line after the last statement of the script.
EndOf(s) == IF s = "indices" THEN 217 ELSE 197

\* The body of prepare_indices, in text order.
PrepareIndicesBody == <<51, 53, 54, 55, 56, 58, 59, 60, 61, 63, 64, 66, 68>>

\* if run_example == k or run_example == 0: the line of the test, k, and the
\* first statement after the block it guards.
IndicesIfs ==
  << [line |-> 73, k |-> 1, after |-> 150],
     [line |-> 150, k |-> 2, after |-> 217] >>

PricingIfs ==
  << [line |-> 52, k |-> 1, after |-> 87],
     [line |-> 87, k |-> 2, after |-> 123],
     [line |-> 123, k |-> 3, after |-> 147],
     [line |-> 147, k |-> 4, after |-> 173],
     [line |-> 173, k |-> 5, after |-> 197] >>

Ifs(s) == IF s = "indices" THEN IndicesIfs ELSE PricingIfs

IsIf(s, line) == \E i \in 1..Len(Ifs(s)) : Ifs(s)[i].line = line

IfAt(s, line) == Ifs(s)[CHOOSE i \in 1..Len(Ifs(s)) : Ifs(s)[i].line = line]

\* The statement that follows line in the sequence seq (end when it is the last).
After(seq, line, end) ==
  LET i == CHOOSE j \in 1..Len(seq) : seq[j] = line
  IN IF i < Len(seq) THEN seq[i + 1] ELSE end

NextLine(s, line) == After(Lines(s), line, EndOf(s))

\* import and from ... import statements, with the module imported.
ImportOf(s, line) ==
  IF s = "indices"
  THEN CASE line = 23 -> "pandas"
         [] line = 26 -> "chartpy"
         [] line = 29 -> "findatapy.market"
         [] line = 31 -> "findatapy.timeseries"
         [] line = 33 -> "findatapy.util.loggermanager"
         [] line = 35 -> "finmarketpy.curve.fxoptionscurve"
         [] line = 36 -> "finmarketpy.curve.volatility.fxvolsurface"
         [] line = 37 -> "finmarketpy.curve.volatility.fxoptionspricer"
         [] line = 214 -> "finmarketpy.economics.quickchart"
         [] OTHER -> ""
  ELSE CASE line = 22 -> "pandas"
         [] line = 25 -> "chartpy"
         [] line = 28 -> "findatapy.market"
         [] line = 30 -> "findatapy.util.loggermanager"
         [] line = 32 -> "finmarketpy.curve.volatility.fxvolsurface"
         [] line = 33 -> "finmarketpy.curve.volatility.fxoptionspricer"
         [] OTHER -> ""

\* Assignments of literals: the bindings a line makes, in order.
AssignOf(s, line) ==
  IF s = "indices"
  THEN CASE line = 48 -> <<>>   \* run_example = <the value chosen for the run>
         [] line = 77 -> <<P("start_date", "01 Jan 2007"), P("finish_date", "31 Dec 2008")>>
         [] line = 79 -> <<P("cross", "AUDUSD")>>
         [] line = 80 -> <<P("fx_options_trading_tenor", "1M")>>
         [] line = 154 -> <<P("start_date", "04 Jan 2006"), P("finish_date", "31 Dec 2020")>>
         [] line = 155 -> <<P("start_date", "09 Mar 2007"), P("finish_date", "31 Dec 2014")>>
         [] line = 159 -> <<P("cross", "EURUSD")>>
         [] line = 160 -> <<P("fx_options_trading_tenor", "1W")>>
         [] OTHER -> <<>>
  ELSE CASE line = 47 -> <<>>   \* run_example = <the value chosen for the run>
         [] line = 54 -> <<P("horizon_date", "23 Jun 2016")>>
         [] line = 55 -> <<P("cross", "GBPUSD")>>
         [] line = 89 -> <<P("start_date", "02 Nov 2020"), P("finish_date", "05 Nov 2020")>>
         [] line = 92 -> <<P("cross", "USDJPY")>>
         [] line = 103 -> <<P("tenors", "ON,1W,2W,1M,2M,3M,6M,9M,1Y,2Y,3Y")>>
         [] line = 125 -> <<P("horizon_date", "18 Apr 2007")>>
         [] line = 126 -> <<P("cross", "AUDUSD")>>
         [] line = 149 -> <<P("horizon_date", "17 Aug 2007")>>
         [] line = 150 -> <<P("cross", "AUDUSD")>>
         [] line = 175 -> <<P("horizon_date", "04 Jan 2006")>>
         [] line = 176 -> <<P("cross", "EURUSD")>>
         [] OTHER -> <<>>

AssignLines(s) ==
  IF s = "indices" THEN {48, 77, 79, 80, 154, 155, 159, 160}
  ELSE {47, 54, 55, 89, 92, 103, 125, 126, 149, 150, 175, 176}

\* md_request.<attribute> = <value>
SetAttrOf(s, line) ==
  IF s = "indices"
  THEN CASE line \in {126, 200} -> P("abstract_curve", "None")
         [] line \in {129, 203} -> P("category", "fx-tot")
         [] line \in {130, 204} -> P("cut", "NYC")
         [] OTHER -> P("", "")
  ELSE P("", "")

SetAttrLines(s) == IF s = "indices" THEN {126, 129, 130, 200, 203, 204} ELSE {}

\* Lines whose expression calls prepare_indices, with the arguments passed
\* (a keyword that is not passed keeps its default, None).
PrepareArgsOf(line) ==
  CASE line = 137 -> [df_tot |-> "df_cuemacro_option_call_tot",
                      df_tc |-> "df_cuemacro_option_call_tc", df_spot_tot |-> "df_bbg_tot"]
    [] line = 140 -> [df_tot |-> "df_cuemacro_option_put_tot",
                      df_tc |-> "df_cuemacro_option_put_tc", df_spot_tot |-> "df_bbg_tot"]
    [] line = 143 -> [df_tot |-> "", df_tc |-> "df_cuemacro_option_put_tc",
                      df_spot_tot |-> "df_bbg_tot"]
    [] line = 211 -> [df_tot |-> "", df_tc |-> "df_cuemacro_option_straddle_tc",
                      df_spot_tot |-> "df_bbg_tot"]

PrepareLines(s) == IF s = "indices" THEN {137, 140, 143, 211} ELSE {}

\* The kind of the statement at a top-level line.
Op(s, line) ==
  CASE ImportOf(s, line) # "" -> "import"
    [] line \in AssignLines(s) -> "assign"
    [] line \in SetAttrLines(s) -> "setattr"
    [] IsIf(s, line) -> "if"
    [] s = "indices" /\ line = 50 -> "def"
    [] line \in PrepareLines(s) -> "prepare"
    [] OTHER -> "call"

\* ------------------------------------------------------ the external calls

V(x) == env[x]

TS(d) == <<"pd.Timestamp", d>>

\* MarketDataRequest(...) of the indices script (lines 83-86 and 163-166).
IndicesMdKw(cut_) ==
  << P("start_date", V("start_date")), P("finish_date", V("finish_date")),
     P("data_source", "bloomberg"), P("cut", cut_), P("category", "fx-vol-market"),
     P("tickers", V("cross")), P("fx_vol_tenor", <<"1W", "1M", "3M">>),
     P("cache_algo", "cache_algo_return"),
     P("base_depos_currencies", CrossSplit(V("cross"))) >>

\* MarketDataRequest(...) of the pricing script.
PricingMdKw(start_, finish_, cut_) ==
  << P("start_date", start_), P("finish_date", finish_),
     P("data_source", "bloomberg"), P("cut", cut_), P("category", "fx-vol-market"),
     P("tickers", V("cross")), P("base_depos_currencies", CrossSplit(V("cross"))),
     P("cache_algo", "cache_algo_return") >>

\* FXOptionsCurve(...) of lines 100-108 and 180-189.
CurveKw1 ==
  << P("fx_options_trading_tenor", V("fx_options_trading_tenor")),
     P("roll_days_before", "0"), P("roll_event", "expiry-date"), P("roll_months", "1"),
     P("fx_options_tenor_for_interpolation", <<"1W", "1M">>),
     P("strike", "atm"), P("contract_type", "european-call"),
     P("position_multiplier", "1.0"), P("output_calculation_fields", "True") >>

CurveKw2 ==
  << P("fx_options_trading_tenor", V("fx_options_trading_tenor")),
     P("roll_days_before", "0"), P("roll_event", "expiry-date"), P("roll_months", "1"),
     P("fx_options_tenor_for_interpolation", <<"1W">>),
     P("strike", "atm"), P("contract_type", "european-straddle"),
     P("position_multiplier", "-1.0"), P("output_calculation_fields", "True"),
     P("cum_index", "add") >>

TcKw(opt, spot) == << P("option_tc_bp", opt), P("spot_tc_bp", spot) >>

FillKw == << P("method", "ffill") >>

\* The external calls of a statement of the indices script that is neither an
\* import, an assignment, a test nor a call of prepare_indices, in the order
\* Python evaluates them.
IndicesCalls(line) ==
  CASE line = 39 -> << Call("LoggerManager", line, <<>>, <<>>, <<>>),
                       Call("getLogger", line, <<"__name__">>, <<>>, <<>>) >>
    [] line = 41 -> << Call("Chart", line, <<>>, <<P("engine", "plotly")>>, <<>>) >>
    [] line = 42 -> << Call("MarketDataGenerator", line, <<>>, <<>>, <<>>),
                       Call("Market", line, <<>>,
                            <<P("market_data_generator", "MarketDataGenerator")>>, <<>>) >>
    [] line = 83 -> << Call("MarketDataRequest", line, <<>>, IndicesMdKw("BGN"), <<>>) >>
    [] line = 163 -> << Call("MarketDataRequest", line, <<>>, IndicesMdKw("10AM"), <<>>) >>
    [] line \in {88, 132, 168, 206} ->
         << Call("fetch_market", line, <<md_request>>, <<>>, <<>>) >>
    [] line \in {89, 169} -> << Call("fillna", line, <<>>, FillKw, <<>>) >>
    [] line = 92 -> << Call("Filter", line, <<>>, <<>>, <<>>),
                       Call("filter_time_series_by_holidays", line, <<V("df")>>,
                            <<P("cal", "FX")>>, <<>>) >>
    [] line \in {95, 175} ->
         << Call("fetch_market", line, <<>>, <<P("md_request", md_request)>>, <<>>),
            Call("fillna", line, <<>>, FillKw, <<>>) >>
    [] line = 100 -> << Call("FXOptionsCurve", line, <<>>, CurveKw1, <<>>) >>
    [] line = 180 -> << Call("FXOptionsCurve", line, <<>>, CurveKw2, <<>>) >>
    [] line = 111 -> << Call("construct_total_return_index", line,
                             <<V("cross"), V("df")>>, <<>>, fx_options_curve) >>
    [] line = 114 -> << Call("apply_tc_to_total_return_index", line,
                             <<V("cross"), V("df_cuemacro_option_call_tot")>>,
                             TcKw("5", "2"), fx_options_curve) >>
    [] line = 118 -> << Call("construct_total_return_index", line,
                             <<V("cross"), V("df")>>,
                             << P("contract_type", "european-put"),
                                P("position_multiplier", "-1.0") >>, fx_options_curve) >>
    [] line = 122 -> << Call("apply_tc_to_total_return_index", line,
                             <<V("cross"), V("df_cuemacro_option_put_tot")>>,
                             TcKw("5", "2"), fx_options_curve) >>
    [] line = 192 -> << Call("construct_total_return_index", line,
                             <<V("cross"), V("df")>>, <<P("depo_tenor", "1W")>>,
                             fx_options_curve) >>
    [] line = 196 -> << Call("apply_tc_to_total_return_index", line,
                             <<V("cross"), V("df_cuemacro_option_straddle_tot")>>,
                             TcKw("10", "1"), fx_options_curve) >>
    [] line \in {133, 207} ->
         << Call("DataFrame.columns", line, <<V("df_bbg_tot")>>, <<>>, <<>>) >>
    [] line \in {135, 209} -> << Call("Calculations", line, <<>>, <<>>, <<>>) >>
    [] line = 216 -> << Call("QuickChart", line, <<>>, <<P("engine", "plotly")>>, <<>>),
                        Call("plot_chart_with_ret_stats", line, <<>>,
                             << P("df", V("df_index")), P("plotly_plot_mode", "offline_html"),
                                P("scale_factor", "-1.5") >>, <<>>) >>
    [] OTHER -> <<>>

\* The variable a statement of the indices script binds ("" when none).
IndicesTarget(line) ==
  CASE line = 39 -> "logger"
    [] line = 41 -> "chart"
    [] line = 42 -> "market"
    [] line \in {88, 89, 92, 168, 169} -> "df"
    [] line \in {95, 175} -> "df_market"
    [] line = 111 -> "df_cuemacro_option_call_tot"
    [] line = 114 -> "df_cuemacro_option_call_tc"
    [] line = 118 -> "df_cuemacro_option_put_tot"
    [] line = 122 -> "df_cuemacro_option_put_tc"
    [] line = 192 -> "df_cuemacro_option_straddle_tot"
    [] line = 196 -> "df_cuemacro_option_straddle_tc"
    [] line \in {132, 206} -> "df_bbg_tot"
    [] line \in {135, 209} -> "calculations"
    [] line = 211 -> "df_index"
    [] OTHER -> ""

\* print(fx_op.price_instrument(...).to_string()): the calls after the
\* arguments have been evaluated.
PriceAndPrint(line, pos_, kw_) ==
  << Call("price_instrument", line, pos_, kw_, <<>>),
     Call("to_string", line, <<>>, <<>>, <<>>),
     Call("print", line, <<>>, <<>>, <<>>) >>

Stamp(line, d) == Call("pd.Timestamp", line, <<d>>, <<>>, <<>>)

Delta(line, days_) == Call("pd.Timedelta", line, <<>>, <<P("days", days_)>>, <<>>)

SurfaceKw(tenors_) ==
  IF tenors_ = <<>>
  THEN << P("market_df", V("df")), P("asset", V("cross")) >>
  ELSE << P("market_df", V("df")), P("asset", V("cross")), P("tenors", tenors_) >>

\* The external calls of a statement of the pricing script, in the order
\* Python evaluates them.
PricingCalls(line) ==
  CASE line = 35 -> << Call("LoggerManager", line, <<>>, <<>>, <<>>),
                       Call("getLogger", line, <<"__name__">>, <<>>, <<>>) >>
    [] line = 37 -> << Call("Chart", line, <<>>, <<P("engine", "plotly")>>, <<>>) >>
    [] line = 38 -> << Call("MarketDataGenerator", line, <<>>, <<>>, <<>>),
                       Call("Market", line, <<>>,
                            <<P("market_data_generator", "MarketDataGenerator")>>, <<>>) >>
    [] line = 58 -> << Call("MarketDataRequest", line, <<>>,
                            PricingMdKw(V("horizon_date"), V("horizon_date"), "NYC"), <<>>) >>
    [] line = 95 -> << Call("MarketDataRequest", line, <<>>,
                            PricingMdKw(V("start_date"), V("finish_date"), "NYC"), <<>>) >>
    [] line = 129 -> << Call("MarketDataRequest", line, <<>>,
                             PricingMdKw(V("horizon_date"), V("horizon_date"), "LDN"), <<>>) >>
    [] line \in {153, 179} ->
         << Call("MarketDataRequest", line, <<>>,
                 PricingMdKw(V("horizon_date"), V("horizon_date"), "BGN"), <<>>) >>
    [] line \in {63, 100, 134, 158, 184} ->
         << Call("fetch_market", line, <<md_request>>, <<>>, <<>>) >>
    [] line = 65 -> << Call("FXVolSurface", line, <<>>, SurfaceKw(<<>>), <<>>) >>
    [] line = 104 -> << Call("FXVolSurface", line, <<>>, SurfaceKw(<<V("tenors")>>), <<>>) >>
    [] line = 136 -> << Call("FXVolSurface", line, <<>>, SurfaceKw(<<"ON", "1W", "1M">>), <<>>) >>
    [] line \in {160, 186} ->
         << Call("FXVolSurface", line, <<>>, SurfaceKw(<<"1W", "1M", "3M">>), <<>>) >>
    [] line \in {67, 106, 138, 162, 188} ->
         << Call("FXOptionsPricer", line, <<>>,
                 <<P("fx_vol_surface", V("fx_vol_surface"))>>, <<>>) >>
    [] line \in {71, 74, 79, 108, 112, 116, 142, 168, 194} ->
         << Call("print", line, <<>>, <<>>, <<>>) >>
    [] line = 72 ->
         <<Stamp(line, V("horizon_date"))>> \o
         PriceAndPrint(line, <<V("cross"), TS(V("horizon_date")), "atm">>,
                       << P("contract_type", "european-call"), P("tenor", "1M") >>)
    [] line = 75 ->
         <<Stamp(line, V("horizon_date"))>> \o
         PriceAndPrint(line, <<V("cross"), TS(V("horizon_date")), "25d-otm">>,
                       << P("contract_type", "european-put"), P("tenor", "1W") >>)
    [] line = 80 ->
         <<Stamp(line, V("horizon_date")), Stamp(line, V("horizon_date")), Delta(line, "12")>> \o
         PriceAndPrint(line, <<V("cross"), TS(V("horizon_date")), "1.50">>,
                       << P("expiry_date", <<TS(V("horizon_date")), "+", "12 days">>),
                          P("contract_type", "european-call") >>)
    [] line = 90 -> << Call("pd.bdate_range", line, <<V("start_date"), V("finish_date")>>,
                            <<P("freq", "B")>>, <<>>) >>
    [] line = 109 ->
         PriceAndPrint(line, <<V("cross"), V("horizon_date"), "atm">>,
                       << P("contract_type", "european-put"), P("tenor", "1W"),
                          P("depo_tenor", "1W") >>)
    [] line = 113 ->
         PriceAndPrint(line, <<V("cross"), V("horizon_date"), "25d-otm">>,
                       << P("contract_type", "european-call"), P("tenor", "3M"),
                          P("depo_tenor", "3M") >>)
    [] line = 117 ->
         PriceAndPrint(line, <<V("cross"), V("horizon_date"), "10d-put">>,
                       << P("contract_type", "european-put"), P("tenor", "1M"),
                          P("depo_tenor", "1M") >>)
    [] line = 143 ->
         <<Stamp(line, V("horizon_date")), Stamp(line, V("horizon_date")), Delta(line, "15")>> \o
         PriceAndPrint(line, <<V("cross"), TS(V("horizon_date")), "0.8124">>,
                       << P("expiry_date", <<TS(V("horizon_date")), "+", "15 days">>),
                          P("contract_type", "european-call") >>)
    [] line = 169 ->
         <<Stamp(line, V("horizon_date")), Stamp(line, "05 Sep 2007")>> \o
         PriceAndPrint(line, <<V("cross"), TS(V("horizon_date")), "0.8535">>,
                       << P("expiry_date", TS("05 Sep 2007")),
                          P("contract_type", "european-call") >>)
    [] line = 195 ->
         <<Stamp(line, V("horizon_date"))>> \o
         PriceAndPrint(line, <<V("cross"), TS(V("horizon_date")), "atm">>,
                       << P("tenor", "1W"), P("depo_tenor", "1W"),
                          P("contract_type", "european-call") >>)
    [] OTHER -> <<>>

\* The variable a statement of the pricing script binds ("" when none).
PricingTarget(line) ==
  CASE line = 35 -> "logger"
    [] line = 37 -> "chart"
    [] line = 38 -> "market"
    [] line \in {63, 100, 134, 158, 184} -> "df"
    [] line \in {65, 104, 136, 160, 186} -> "fx_vol_surface"
    [] line \in {67, 106, 138, 162, 188} -> "fx_op"
    [] line = 90 -> "horizon_date"
    [] OTHER -> ""

CallsOf(s, line) == IF s = "indices" THEN IndicesCalls(line) ELSE PricingCalls(line)

TargetOf(s, line) == IF s = "indices" THEN IndicesTarget(line) ELSE PricingTarget(line)

\* What a variable holds once the call that binds it has returned.
Returned(target) ==
  CASE target \in {"df", "df_market", "df_bbg_tot", "df_index",
                   "df_cuemacro_option_call_tot", "df_cuemacro_option_call_tc",
                   "df_cuemacro_option_put_tot", "df_cuemacro_option_put_tc",
                   "df_cuemacro_option_straddle_tot",
                   "df_cuemacro_option_straddle_tc"} -> "DataFrame"
    [] target = "horizon_date" -> "DatetimeIndex"
    [] target = "fx_vol_surface" -> "FXVolSurface"
    [] target = "fx_op" -> "FXOptionsPricer"
    [] target = "calculations" -> "Calculations"
    [] target = "logger" -> "Logger"
    [] target = "chart" -> "Chart"
    [] target = "market" -> "Market"
    [] OTHER -> "object"

\* md_request = MarketDataRequest(...) and fx_options_curve = FXOptionsCurve(...)
\* bind an object whose attributes are the keyword arguments of its constructor.
BuildsRequest(s, line) ==
  IF s = "indices" THEN line \in {83, 163} ELSE line \in {58, 95, 129, 153, 179}

BuildsCurve(s, line) == s = "indices" /\ line \in {100, 180}

\* --------------------------------------------------------- prepare_indices

\* The column suffix a line of prepare_indices selects.
SuffixOf(line) ==
  CASE line = 54 -> "-option-tot.close"
    [] line = 55 -> "-option-delta-tot.close"
    [] line = 56 -> "-delta-pnl-index.close"
    [] line = 59 -> "-option-tot-with-tc.close"
    [] line = 60 -> "-option-delta-tot-with-tc.close"
    [] line = 61 -> "-delta-pnl-index-with-tc.close"
    [] OTHER -> ""

\* The argument of prepare_indices that a line of its body reads.
ParamOf(line) ==
  CASE line \in {53, 54, 55, 56} -> "df_tot"
    [] line \in {58, 59, 60, 61} -> "df_tc"
    [] line \in {63, 64} -> "df_spot_tot"
    [] OTHER -> ""

\* The tests of prepare_indices: if <param> is not None, and the first line
\* after the suite of the test.
PiTests == {53, 58, 63}

\* A test whose else-branch leaves the function's remaining tests out.
PiElseToJoin(line) == 66

PiElse(line) == CASE line = 53 -> 58 [] line = 58 -> 63 [] line = 63 -> 66

PiAppends == {54, 55, 56, 59, 60, 61, 64}

Frame == stack[Len(stack)]

\* cross + '<suffix>': the global cross, read when the line runs.
Column(line) == <<V("cross"), SuffixOf(line)>>

\* The external calls of a line of the body of prepare_indices.
PiCalls(line) ==
  CASE line \in {54, 55, 56, 59, 60, 61} ->
         << Call("DataFrame.__getitem__", line, <<Frame[ParamOf(line)], Column(line)>>, <<>>, <<>>),
            Call("pd.DataFrame", line, <<Column(line)>>, <<>>, <<>>) >>
    [] line = 66 -> << Call("pandas_outer_join", line, <<df_list>>, <<>>, <<>>),
                       Call("fillna", line, <<>>, FillKw, <<>>) >>
    [] line = 68 -> << Call("create_mult_index_from_prices", line, <<"DataFrame">>, <<>>, <<>>) >>
    [] OTHER -> <<>>

\* What remains of a statement that calls prepare_indices once it has returned.
AfterPrepareCalls(line) ==
  IF line = 211
  THEN << Call("create_mult_index_from_prices", line, <<"DataFrame">>, <<>>, <<>>) >>
  ELSE << Call("create_mult_index_from_prices", line, <<"DataFrame">>, <<>>, <<>>),
          Call("chart.plot", line, <<"DataFrame">>, <<>>, <<>>) >>

\* An argument as passed: the value of the variable named, None when omitted.
Passed(name) == IF name = "" THEN "None" ELSE V(name)

\* ------------------------------------------------------------- the machine

NoFailure == [line |-> 0, fn |-> "", at |-> 0]

Init ==
  /\ script \in Scripts
  /\ run_example \in RunExamples
  /\ pc = Lines(script)[1]
  /\ env = [x \in EnvVars |-> "unbound"]
  /\ md_request = <<>>
  /\ fx_options_curve = <<>>
  /\ stack = <<>>
  /\ returned = FALSE
  /\ df_list = <<>>
  /\ calls = <<>>
  /\ executed = <<>>
  /\ blocks = <<>>
  /\ prepared = <<>>
  /\ status = "running"
  /\ failure = NoFailure

Running == status = "running"

InBody == stack # <<>>

AtTop == Running /\ ~InBody /\ pc # EndOf(script)

\* The statement at pc is a call of prepare_indices that has returned.
Resuming == ~InBody /\ pc # EndOf(script) /\ Op(script, pc) = "prepare" /\ returned

\* A guard that forgets the "or run_example == 0" half.
GuardHoldsOnlyK(k) == run_example = k

\* if run_example == k or run_example == 0
GuardHolds(k) == run_example = k \/ run_example = 0

\* The external calls the next step makes, in order.
CurCalls ==
  IF InBody THEN PiCalls(pc)
  ELSE IF pc = EndOf(script) THEN <<>>
  ELSE CASE Op(script, pc) = "import" ->
              << Call("import", pc, <<ImportOf(script, pc)>>, <<>>, <<>>) >>
         [] Op(script, pc) = "call" -> CallsOf(script, pc)
         [] Op(script, pc) = "prepare" /\ returned -> AfterPrepareCalls(pc)
         [] OTHER -> <<>>

Bind(e, binds) ==
  [x \in EnvVars |->
     IF \E i \in 1..Len(binds) : binds[i][1] = x
     THEN binds[CHOOSE i \in 1..Len(binds) :
                  binds[i][1] = x /\ \A j \in (i + 1)..Len(binds) : binds[j][1] # x][2]
     ELSE e[x]]

BindTarget(e, target) ==
  IF target = "" THEN e ELSE [e EXCEPT ![target] = Returned(target)]

Import ==
  /\ AtTop /\ Op(script, pc) = "import"
  /\ calls' = calls \o CurCalls
  /\ executed' = Append(executed, pc)
  /\ pc' = NextLine(script, pc)
  /\ UNCHANGED <<script, run_example, env, md_request, fx_options_curve, stack,
                 returned, df_list, blocks, prepared, status, failure>>

Def ==
  /\ AtTop /\ Op(script, pc) = "def"
  /\ env' = [env EXCEPT !["prepare_indices"] = "function"]
  /\ executed' = Append(executed, pc)
  /\ pc' = NextLine(script, pc)
  /\ UNCHANGED <<script, run_example, md_request, fx_options_curve, stack,
                 returned, df_list, calls, blocks, prepared, status, failure>>

Assign ==
  /\ AtTop /\ Op(script, pc) = "assign"
  /\ env' = Bind(env, AssignOf(script, pc))
  /\ executed' = Append(executed, pc)
  /\ pc' = NextLine(script, pc)
  /\ UNCHANGED <<script, run_example, md_request, fx_options_curve, stack,
                 returned, df_list, calls, blocks, prepared, status, failure>>

SetAttr ==
  /\ AtTop /\ Op(script, pc) = "setattr"
  /\ md_request' = KwSet(md_request, SetAttrOf(script, pc)[1], SetAttrOf(script, pc)[2])
  /\ executed' = Append(executed, pc)
  /\ pc' = NextLine(script, pc)
  /\ UNCHANGED <<script, run_example, env, fx_options_curve, stack,
                 returned, df_list, calls, blocks, prepared, status, failure>>

EnterBlock ==
  /\ AtTop /\ Op(script, pc) = "if"
  /\ GuardHolds(IfAt(script, pc).k)
  /\ blocks' = Append(blocks, IfAt(script, pc).k)
  /\ executed' = Append(executed, pc)
  /\ pc' = NextLine(script, pc)
  /\ UNCHANGED <<script, run_example, env, md_request, fx_options_curve, stack,
                 returned, df_list, calls, prepared, status, failure>>

SkipBlock ==
  /\ AtTop /\ Op(script, pc) = "if"
  /\ ~GuardHolds(IfAt(script, pc).k)
  /\ executed' = Append(executed, pc)
  /\ pc' = IfAt(script, pc).after
  /\ UNCHANGED <<script, run_example, env, md_request, fx_options_curve, stack,
                 returned, df_list, calls, blocks, prepared, status, failure>>

CallStmt ==
  /\ AtTop /\ Op(script, pc) = "call"
  /\ calls' = calls \o CurCalls
  /\ env' = BindTarget(env, TargetOf(script, pc))
  /\ md_request' = IF BuildsRequest(script, pc) THEN CurCalls[1].kw ELSE md_request
  /\ fx_options_curve' = IF BuildsCurve(script, pc) THEN CurCalls[1].kw ELSE fx_options_curve
  /\ executed' = Append(executed, pc)
  /\ pc' = NextLine(script, pc)
  /\ UNCHANGED <<script, run_example, stack, returned, df_list, blocks, prepared,
                 status, failure>>

\* A statement whose expression calls prepare_indices: the call itself.
EnterPrepare ==
  /\ AtTop /\ Op(script, pc) = "prepare" /\ ~returned
  /\ stack' = Append(stack, [ret |-> pc,
                             df_tot |-> Passed(PrepareArgsOf(pc).df_tot),
                             df_tc |-> Passed(PrepareArgsOf(pc).df_tc),
                             df_spot_tot |-> Passed(PrepareArgsOf(pc).df_spot_tot),
                             lines |-> <<>>])
  /\ executed' = Append(executed, pc)
  /\ pc' = PrepareIndicesBody[1]
  /\ UNCHANGED <<script, run_example, env, md_request, fx_options_curve,
                 returned, df_list, calls, blocks, prepared, status, failure>>

\* The rest of that statement, once prepare_indices has returned.
Resume ==
  /\ Running /\ Resuming
  /\ calls' = calls \o CurCalls
  /\ env' = BindTarget(env, TargetOf(script, pc))
  /\ returned' = FALSE
  /\ pc' = NextLine(script, pc)
  /\ UNCHANGED <<script, run_example, md_request, fx_options_curve, stack,
                 df_list, executed, blocks, prepared, status, failure>>

InPrepare == Running /\ InBody

Traced == [stack EXCEPT ![Len(stack)].lines = Append(@, pc)]

NextInBody(line) == After(PrepareIndicesBody, line, 0)

\* df_list = []
PiInit ==
  /\ InPrepare /\ pc = 51
  /\ df_list' = <<>>
  /\ stack' = Traced
  /\ executed' = Append(executed, pc)
  /\ pc' = NextInBody(pc)
  /\ UNCHANGED <<script, run_example, env, md_request, fx_options_curve,
                 returned, calls, blocks, prepared, status, failure>>

\* if <param> is not None: the suite is entered
PiTake ==
  /\ InPrepare /\ pc \in PiTests
  /\ Frame[ParamOf(pc)] # "None"
  /\ stack' = Traced
  /\ executed' = Append(executed, pc)
  /\ pc' = NextInBody(pc)
  /\ UNCHANGED <<script, run_example, env, md_request, fx_options_curve,
                 returned, df_list, calls, blocks, prepared, status, failure>>

\* if <param> is not None: the suite is skipped
PiSkip ==
  /\ InPrepare /\ pc \in PiTests
  /\ Frame[ParamOf(pc)] = "None"
  /\ stack' = Traced
  /\ executed' = Append(executed, pc)
  /\ pc' = PiElse(pc)
  /\ UNCHANGED <<script, run_example, env, md_request, fx_options_curve,
                 returned, df_list, calls, blocks, prepared, status, failure>>

\* df_list.append(...)
PiAppend ==
  /\ InPrepare /\ pc \in PiAppends
  /\ calls' = calls \o CurCalls
  /\ df_list' = Append(df_list, IF pc = 64 THEN <<"df_spot_tot", "">> ELSE Column(pc))
  /\ stack' = Traced
  /\ executed' = Append(executed, pc)
  /\ pc' = NextInBody(pc)
  /\ UNCHANGED <<script, run_example, env, md_request, fx_options_curve,
                 returned, blocks, prepared, status, failure>>

\* df = calculations.pandas_outer_join(df_list).fillna(method='ffill')
PiJoin ==
  /\ InPrepare /\ pc = 66
  /\ calls' = calls \o CurCalls
  /\ stack' = Traced
  /\ executed' = Append(executed, pc)
  /\ pc' = NextInBody(pc)
  /\ UNCHANGED <<script, run_example, env, md_request, fx_options_curve,
                 returned, df_list, blocks, prepared, status, failure>>

\* return calculations.create_mult_index_from_prices(df)
PiReturn ==
  /\ InPrepare /\ pc = 68
  /\ calls' = calls \o CurCalls
  /\ prepared' = Append(prepared, [site |-> Frame.ret,
                                   df_tot |-> Frame.df_tot # "None",
                                   df_tc |-> Frame.df_tc # "None",
                                   df_spot_tot |-> Frame.df_spot_tot # "None",
                                   joined |-> Len(df_list),
                                   lines |-> Append(Frame.lines, pc)])
  /\ stack' = SubSeq(stack, 1, Len(stack) - 1)
  /\ returned' = TRUE
  /\ executed' = Append(executed, pc)
  /\ pc' = Frame.ret
  /\ UNCHANGED <<script, run_example, env, md_request, fx_options_curve,
                 df_list, blocks, status, failure>>

\* An external call raises and the exception is swallowed: the statement is
\* tried again, as a retry loop around it would do.
RaiseRetried ==
  /\ Running
  /\ \E j \in 1..Len(CurCalls) :
       /\ calls' = calls \o SubSeq(CurCalls, 1, j - 1) \o <<[CurCalls[j] EXCEPT !.ok = FALSE]>>
       /\ failure' = [line |-> pc, fn |-> CurCalls[j].fn, at |-> Len(calls) + j]
  /\ executed' = IF Resuming THEN executed ELSE Append(executed, pc)
  /\ UNCHANGED <<script, run_example, pc, env, md_request, fx_options_curve, stack,
                 returned, df_list, blocks, prepared, status>>

\* An external call raises.  No statement of either script is inside a try,
\* so the exception reaches the top level and the interpreter exits: the
\* calls before it in the statement were made, the rest of the statement and
\* everything after it is not executed.
Raise ==
  /\ Running
  /\ \E j \in 1..Len(CurCalls) :
       /\ calls' = calls \o SubSeq(CurCalls, 1, j - 1) \o <<[CurCalls[j] EXCEPT !.ok = FALSE]>>
       /\ failure' = [line |-> pc, fn |-> CurCalls[j].fn, at |-> Len(calls) + j]
  /\ status' = "failed"
  /\ executed' = IF Resuming THEN executed ELSE Append(executed, pc)
  /\ UNCHANGED <<script, run_example, pc, env, md_request, fx_options_curve, stack,
                 returned, df_list, blocks, prepared>>

\* The end of the file is reached.
Finish ==
  /\ Running /\ ~InBody /\ pc = EndOf(script)
  /\ status' = "done"
  /\ UNCHANGED <<script, run_example, pc, env, md_request, fx_options_curve, stack,
                 returned, df_list, calls, executed, blocks, prepared, failure>>

Next ==
  \/ Import \/ Def \/ Assign \/ SetAttr \/ EnterBlock \/ SkipBlock \/ CallStmt
  \/ EnterPrepare \/ Resume
  \/ PiInit \/ PiTake \/ PiSkip \/ PiAppend \/ PiJoin \/ PiReturn
  \/ Raise \/ Finish

Spec == Init /\ [][Next]_vars

\* ------------------------------------------------------------ properties

IsPrefix(a, b) == Len(a) <= Len(b) /\ a = SubSeq(b, 1, Len(a))

\* The number of example blocks the header comments of each script list.
BlocksListed(s) == IF s = "indices" THEN 2 ELSE 5

\* The blocks a run with this run_example is to execute, in order.
BlocksToRun ==
  IF run_example = 0 THEN [i \in 1..BlocksListed(script) |-> i]
  ELSE IF run_example \in 1..BlocksListed(script) THEN <<run_example>>
  ELSE <<>>

\* The block a top-level line lies in (0: in none).
BlockOf(s, line) ==
  IF \E i \in 1..Len(Ifs(s)) : Ifs(s)[i].line < line /\ line < Ifs(s)[i].after
  THEN Ifs(s)[CHOOSE i \in 1..Len(Ifs(s)) :
                Ifs(s)[i].line < line /\ line < Ifs(s)[i].after].k
  ELSE 0

InPrepareBody(line) == \E i \in 1..Len(PrepareIndicesBody) : PrepareIndicesBody[i] = line

\* C1: block k is executed if and only if run_example == k or run_example == 0.
\* The blocks entered so far are always an initial part of the blocks to run
\* (1..2 resp. 1..5 in ascending order for 0, only k for k >= 1, none
\* otherwise), a run that reaches the end of the file has entered exactly
\* those, every statement executed inside block k has run_example in {k, 0},
\* and for any other value no statement of a block runs and fetch_market is
\* never called.
C1_BlockDispatch ==
  /\ IsPrefix(blocks, BlocksToRun)
  /\ status = "done" => blocks = BlocksToRun
  /\ \A i \in 1..Len(executed) :
       LET b == IF InPrepareBody(executed[i]) /\ script = "indices"
                THEN 0 ELSE BlockOf(script, executed[i])
       IN b # 0 => (run_example = b \/ run_example = 0)
  /\ \A i \in 1..Len(calls) :
       (BlockOf(script, calls[i].line) # 0 /\ ~InPrepareBody(calls[i].line))
         => (run_example = BlockOf(script, calls[i].line) \/ run_example = 0)
  /\ run_example \notin 0..BlocksListed(script) =>
       /\ blocks = <<>>
       /\ \A i \in 1..Len(calls) : calls[i].fn # "fetch_market"

\* C1 witness: run_example = 0 in the pricing script, all five blocks run.
C1_Witness ==
  /\ status = "done" /\ script = "pricing" /\ run_example = 0
  /\ blocks = <<1, 2, 3, 4, 5>>
  /\ \E i \in 1..Len(calls) : calls[i].fn = "fetch_market"

\* C2: no failure of an external call is handled.  A call that failed is the
\* last call ever made, the run has stopped at the line of that call with
\* that same failure, and nothing was executed after it.
C2_FailurePropagates ==
  /\ \A i \in 1..Len(calls) :
       ~calls[i].ok =>
         /\ i = Len(calls)
         /\ status = "failed"
         /\ failure = [line |-> calls[i].line, fn |-> calls[i].fn, at |-> i]
         /\ pc = calls[i].line
  /\ status = "failed" =>
       /\ calls # <<>> /\ ~calls[Len(calls)].ok
       /\ IF InBody \/ ~Resuming THEN executed[Len(executed)] = pc
          ELSE executed[Len(executed)] = PrepareIndicesBody[Len(PrepareIndicesBody)]
  /\ status = "done" => \A i \in 1..Len(calls) : calls[i].ok

\* C2 witness: run_example = 0, the second construct_total_return_index of
\* block 1 fails after calls that succeeded; block 2 is never entered.
C2_Witness ==
  /\ status = "failed" /\ script = "indices" /\ run_example = 0
  /\ failure.fn = "construct_total_return_index" /\ failure.line = 118
  /\ blocks = <<1>>
  /\ Len(calls) > 1 /\ calls[Len(calls) - 1].ok

\* The lines of the body of prepare_indices that run when the arguments are
\* given (TRUE) or None (FALSE).
BodyWith(tot, tc, spot) ==
  SelectSeq(PrepareIndicesBody,
            LAMBDA l : CASE l \in {54, 55, 56} -> tot
                         [] l \in {59, 60, 61} -> tc
                         [] l = 64 -> spot
                         [] OTHER -> TRUE)

\* A top-level line with, for a call of prepare_indices, the lines of its body.
Expanded(s, line) ==
  IF line \in PrepareLines(s)
  THEN <<line>> \o BodyWith(PrepareArgsOf(line).df_tot # "",
                            PrepareArgsOf(line).df_tc # "",
                            PrepareArgsOf(line).df_spot_tot # "")
  ELSE <<line>>

RECURSIVE LinesFrom(_, _, _)
\* The statements a run with run_example = re executes from the i-th
\* top-level statement on, when no call fails.
LinesFrom(s, re, i) ==
  IF i > Len(Lines(s)) THEN <<>>
  ELSE (IF BlockOf(s, Lines(s)[i]) = 0 \/ re = BlockOf(s, Lines(s)[i]) \/ re = 0
        THEN Expanded(s, Lines(s)[i]) ELSE <<>>) \o LinesFrom(s, re, i + 1)

\* The value run_example has in the scripts as they are (lines 48 and 47).
AsWritten(s) == IF s = "indices" THEN 2 ELSE 5

Used(c, n) == IF KwGet(c.kw, n) # "<absent>" THEN KwGet(c.kw, n) ELSE KwGet(c.recv, n)

ConstructCalls == SelectSeq(calls, LAMBDA c : c.fn = "construct_total_return_index")

\* C4: with run_example = 1 both calls of construct_total_return_index use
\* cross AUDUSD, trading tenor 1M and position multiplier +1.0, the first
\* with contract type european-call, the second with european-put.
C4_LongCallsAndLongPuts ==
  (script = "indices" /\ run_example = 1) =>
     /\ Len(ConstructCalls) <= 2
     /\ \A i \in 1..Len(ConstructCalls) :
          /\ ConstructCalls[i].pos[1] = "AUDUSD"
          /\ KwGet(ConstructCalls[i].recv, "fx_options_trading_tenor") = "1M"
          /\ Used(ConstructCalls[i], "position_multiplier") = "1.0"
          /\ Used(ConstructCalls[i], "contract_type")
               = (IF i = 1 THEN "european-call" ELSE "european-put")

\* C5: with run_example = 2 the cross of the market data request, of
\* construct_total_return_index and of apply_tc_to_total_return_index is
\* USDJPY, the trading tenor is 1W, the contract type european-straddle and
\* the position multiplier -1.0.
C5_ShortUsdJpyStraddles ==
  (script = "indices" /\ run_example = 2) =>
     \A i \in 1..Len(calls) :
       /\ calls[i].fn = "MarketDataRequest" => KwGet(calls[i].kw, "tickers") = "USDJPY"
       /\ calls[i].fn \in {"construct_total_return_index", "apply_tc_to_total_return_index"} =>
            /\ calls[i].pos[1] = "USDJPY"
            /\ KwGet(calls[i].recv, "fx_options_trading_tenor") = "1W"
            /\ Used(calls[i], "contract_type") = "european-straddle"
            /\ Used(calls[i], "position_multiplier") = "-1.0"

====
